---------------------------- MODULE Spec2Model ----------------------------
(***************************************************************************)
(* State-machine model of the two stateful utilities of the SessionChecker *)
(* frontend:                                                               *)
(*   - WebSocketManager  (Frontend/src/utils/websocketManager.js)          *)
(*   - RequestController (Frontend/src/utils/requestController.js)         *)
(* Browser primitives (WebSocket, setTimeout, AbortController, promises)   *)
(* are modelled by what the platform guarantees: events and timers are     *)
(* macrotasks that run one at a time, a promise continuation runs to       *)
(* completion before the next macrotask.  Time is abstracted: a pending    *)
(* timer may fire at any moment.                                           *)
(***************************************************************************)
EXTENDS Integers, Sequences, FiniteSets, TLC

(***************************************************************************)
(* Bounds of the model.                                                    *)
(***************************************************************************)
\* number of WebSocket objects the manager may create in one run
MaxSockets == 6
\* number of sockets that may be unclosed at the same time
MaxLive == 2
\* number of WebSocket objects in the runs that also deliver messages
MsgMaxSockets == 2
\* number of createCancellableRequest / createCancellableOperation calls in one run
MaxCalls == 2

(***************************************************************************)
(* Program constants of WebSocketManager.                                  *)
(***************************************************************************)
maxReconnectAttempts == 5
reconnectDelay == 1000
\* WebSocket close codes: normal closure (the code disconnect() passes) and
\* abnormal closure (what the browser reports for a failed or lost connection)
NormalClosure == 1000
AbnormalClosure == 1006

NoSocket == 0
SocketIds == 1..MaxSockets
TaskIds == {"task-1"}
Callbacks == {"callback"}

\* message types the default handler re-dispatches (switch in handleDefaultMessage)
DefaultTypes == {"progress", "status", "result", "error", "complete"}
\* "log" is the other type the backend documents; "absent" = no type field
MessageTypes == DefaultTypes \cup {"log", "absent"}
\* types the callers of on()/off() register handlers for in this model
HandlerTypes == {"progress", "log"}
\* the handler functions those callers pass
Handlers == {"h1", "h2"}
\* what the payload field of a message object can be
Payloads == {"absent", "null", "number", "object"}

VARIABLES
    \* ---- WebSocketManager fields (constructor, lines 7-16)
    ws,                 \* this.ws: socket id or NoSocket (null)
    reconnectAttempts,  \* this.reconnectAttempts
    messageHandlers,    \* this.messageHandlers: a map from type to handler
    connectionStatus,   \* this.connectionStatus
    taskId,             \* this.taskId ("null" or a task id)
    onStatusChange,     \* this.onStatusChange ("null" or "callback")
    \* ---- platform state the manager interacts with
    urlValid,           \* whether new WebSocket(wsUrl) succeeds for the configured URL
    nSockets,           \* number of WebSocket objects created so far
    readyState,         \* readyState of every socket ("FAILING": closed by the
                        \* client before it opened, its close event still due)
    pendingTimers,      \* number of reconnect timers armed and not yet fired
    \* ---- history variables
    scheduledDelays,    \* delays passed to setTimeout since the last open event
    lastClose,          \* the last close event: its code and whether it scheduled
    manuallyClosed,     \* disconnect() was the caller's last connect/disconnect call
    delivery            \* what the last onmessage call did

wsVars == <<ws, reconnectAttempts, messageHandlers, connectionStatus, taskId,
            onStatusChange, urlValid, nSockets, readyState,
            pendingTimers, scheduledDelays, lastClose, manuallyClosed,
            delivery>>

VARIABLES
    \* ---- RequestController fields (constructor, lines 7-11)
    abortControllers,   \* this.abortControllers: request id -> controller
    activeRequests,     \* this.activeRequests: request id -> request info
    requestTimeouts,    \* this.requestTimeouts: request id -> timer id
    \* ---- platform state the controller interacts with
    aborted,            \* controllers whose signal is aborted
    timerState,         \* every timer: "none", "pending", "cleared" or "fired"
    calls,              \* the createCancellable* calls made so far, in order
    \* ---- history variables
    onTimeoutCalls,     \* per call, how often its onTimeout ran
    onCancelCalls,      \* per call, how often its onCancel ran
    lastOp              \* the caller's cancelRequest / cancelAllRequests / cleanup
                        \* call if the last step was one, with what it returned

rcStore == <<abortControllers, activeRequests, requestTimeouts, aborted, timerState>>

rcVars == <<abortControllers, activeRequests, requestTimeouts, aborted, timerState,
            calls, onTimeoutCalls, onCancelCalls, lastOp>>

VARIABLES
    \* ---- FolderJoiner state hooks (pages/FolderJoiner.js, lines 9-15)
    sessions,           \* sessions: the uploaded session files
    selectedSessions,   \* selectedSessions
    folderLink,         \* folderLink
    isLoading,          \* isLoading
    results,            \* results ("null" or the response)
    error,              \* error (a message, "" for none)
    requestId,          \* requestId ("null" or the id of the join)
    \* ---- platform state and history of FolderJoiner
    joinPromise,        \* the promise handleJoinFolder is suspended on, if any
    joinFolderCalls,    \* the calls of sessionAPI.joinFolder made so far
    uncaught            \* the error the last handleCancel call threw, if any

fjVars == <<sessions, selectedSessions, folderLink, isLoading, results, error,
            requestId, joinPromise, joinFolderCalls, uncaught>>

VARIABLE
    \* ---- a caller of the file validation utilities (utils/fileValidation.js)
    validation          \* the last validateFileUpload call: its arguments and result

fvVars == <<validation>>

VARIABLES
    \* ---- a FileUpload component (components/FileUpload.js)
    mounted,            \* the props of the instance on the page, if there is one
    fuFiles,            \* files (line 16)
    zipCalls,           \* the processZipFile calls awaiting the backend, by the
                        \* onFilesSelected callback they hold
    \* ---- history of FileUpload: the last handler that ran, and what it did
    lastCall,           \* the handler and its argument
    errorToasts,        \* its toast.error calls
    zipsSent,           \* the files it passed to processZipFile
    selectedCalls       \* its onFilesSelected calls, the effect's included

fuVars == <<mounted, fuFiles, zipCalls, lastCall, errorToasts, zipsSent, selectedCalls>>

VARIABLES
    \* ---- ProfilePictureManager state hooks (pages/ProfilePictureManager.js, 8-14)
    currentStep,        \* currentStep
    sessionFiles,       \* sessionFiles
    profilePicture,     \* profilePicture (NoFile for null)
    ppSelectedSessions, \* selectedSessions: names of session files
    ppResults,          \* results
    loading,            \* loading
    \* ---- history of ProfilePictureManager
    lastUpdate          \* the arguments of the last sessionAPI.updateProfilePictures call

ppVars == <<currentStep, sessionFiles, profilePicture, ppSelectedSessions, ppResults,
            loading, lastUpdate>>

VARIABLES
    \* ---- NameManager state hooks (pages/BioManager.js, lines 246-250)
    nmFiles,            \* files: the names of the selected session files
    nmResults,          \* results
    nmLoading,          \* loading
    nameMapping,        \* nameMapping: session name -> display name
    defaultName,        \* defaultName
    \* ---- history of NameManager
    edited              \* the sessions whose name the user edited since the
                        \* files were selected

nmVars == <<nmFiles, nmResults, nmLoading, nameMapping, defaultName, edited>>

VARIABLES
    \* ---- AuthCodeExtractor state hooks (pages/AuthCodeExtractor.js, 8-11)
    acFiles,            \* files
    sessionCards,       \* sessionCards
    extractedCodes,     \* extractedCodes
    \* ---- the handler calls suspended at their await
    acInFlight,         \* each with the sessionCards its closure captured
    acStarted           \* the number of handler calls that reached an await

acVars == <<acFiles, sessionCards, extractedCodes, acInFlight, acStarted>>

uiVars == <<fjVars, fvVars, fuVars, ppVars, nmVars, acVars>>

\* what the handlers of each page leave alone
fjFrame == <<wsVars, rcVars, fvVars, fuVars, ppVars, nmVars, acVars>>
fvFrame == <<wsVars, rcVars, fjVars, fuVars, ppVars, nmVars, acVars>>
ppFrame == <<wsVars, rcVars, fjVars, fvVars, nmVars, acVars>>
nmFrame == <<wsVars, rcVars, fjVars, fvVars, fuVars, ppVars, acVars>>
acFrame == <<wsVars, rcVars, fjVars, fvVars, fuVars, ppVars, nmVars>>

vars == <<wsVars, rcVars, uiVars>>

-----------------------------------------------------------------------------
(***************************************************************************)
(* WebSocketManager                                                        *)
(***************************************************************************)

RECURSIVE Pow2(_)
Pow2(n) == IF n <= 0 THEN 1 ELSE 2 * Pow2(n - 1)

\* A JavaScript Map as a function whose domain is the key set.
EmptyMap == << >>
MapSet(m, k, v) == [x \in DOMAIN m \cup {k} |-> IF x = k THEN v ELSE m[x]]
MapDelete(m, k) == [x \in DOMAIN m \ {k} |-> m[x]]
MapHas(m, k) == k \in DOMAIN m

\* The texts a socket may deliver, by what JSON.parse makes of them: a text that
\* is not JSON, the JSON texts null and 5, and JSON objects with or without a
\* type field and with or without a payload field.
RawMessages ==
    {[syntax |-> "invalid", top |-> "none", type |-> "absent", payload |-> "absent"]}
    \cup {[syntax |-> "valid", top |-> t, type |-> "absent", payload |-> "absent"] :
             t \in {"null", "number"}}
    \cup {[syntax |-> "valid", top |-> "object", type |-> ty, payload |-> p] :
             ty \in MessageTypes, p \in Payloads}

\* The message the backend documents for its stream: type, level, message,
\* timestamp and task_id, and no payload field.
BackendProgressMessage ==
    [syntax |-> "valid", top |-> "object", type |-> "progress", payload |-> "absent"]

NoDelivery ==
    [seq |-> 0, raw |-> "none", parsed |-> FALSE, handlerCalls |-> << >>,
     defaultCalls |-> 0, events |-> << >>, caught |-> FALSE]

InitWS ==
    /\ ws = NoSocket
    /\ reconnectAttempts = 0
    /\ messageHandlers = EmptyMap
    /\ connectionStatus = "disconnected"
    /\ taskId = "null"
    /\ onStatusChange = "null"
    /\ urlValid \in BOOLEAN
    /\ nSockets = 0
    /\ readyState = [s \in SocketIds |-> "NONE"]
    /\ pendingTimers = 0
    /\ scheduledDelays = << >>
    /\ lastClose = [code |-> 0, scheduled |-> FALSE]
    /\ manuallyClosed = FALSE
    /\ delivery = NoDelivery

LiveStates == {"CONNECTING", "OPEN", "CLOSING", "FAILING"}
LiveSockets == {s \in SocketIds : readyState[s] \in LiveStates}

\* connect(taskId, onStatusChange): the fields it assigns.  new WebSocket(url)
\* throws for an unusable URL, and the catch sets status 'error'.
ConnectEffect(tid, cb) ==
    /\ taskId' = tid
    /\ onStatusChange' = cb
    /\ IF urlValid
         THEN /\ nSockets' = nSockets + 1
              /\ readyState' = [readyState EXCEPT ![nSockets + 1] = "CONNECTING"]
              /\ ws' = nSockets + 1
              /\ connectionStatus' = "connecting"
         ELSE /\ connectionStatus' = "error"
              /\ UNCHANGED <<nSockets, readyState, ws>>

\* The caller invokes connect(taskId, onStatusChange).
Connect(limit, tid, cb) ==
    /\ nSockets < limit
    /\ Cardinality(LiveSockets) < MaxLive
    /\ ConnectEffect(tid, cb)
    /\ manuallyClosed' = FALSE
    /\ UNCHANGED <<rcVars, uiVars>>
    /\ UNCHANGED <<reconnectAttempts, messageHandlers, pendingTimers,
                   scheduledDelays, lastClose, delivery, urlValid>>

\* WebSocket.close(code) on socket s: an OPEN socket starts the closing
\* handshake, a CONNECTING one has its connection failed, others are untouched.
CloseSocket(rs, s) ==
    CASE rs[s] = "OPEN" -> [rs EXCEPT ![s] = "CLOSING"]
      [] rs[s] = "CONNECTING" -> [rs EXCEPT ![s] = "FAILING"]
      [] OTHER -> rs

\* The caller invokes disconnect().
Disconnect ==
    /\ IF ws # NoSocket
         THEN /\ readyState' = CloseSocket(readyState, ws)
              /\ ws' = NoSocket
         ELSE UNCHANGED <<readyState, ws>>
    /\ connectionStatus' = "disconnected"
    /\ messageHandlers' = EmptyMap
    /\ manuallyClosed' = TRUE
    /\ UNCHANGED <<rcVars, uiVars>>
    /\ UNCHANGED <<reconnectAttempts, taskId, onStatusChange, urlValid, nSockets,
                   pendingTimers, scheduledDelays, lastClose,
                   delivery>>

\* The open event of socket s: ws.onopen.  Its send({task_id}) writes to the
\* wire and leaves every field of the manager as it is.
SocketOpen(s) ==
    /\ readyState[s] = "CONNECTING"
    /\ readyState' = [readyState EXCEPT ![s] = "OPEN"]
    /\ reconnectAttempts' = 0
    /\ connectionStatus' = "connected"
    /\ scheduledDelays' = << >>
    /\ UNCHANGED <<rcVars, uiVars>>
    /\ UNCHANGED <<ws, messageHandlers, taskId, onStatusChange, urlValid,
                   nSockets, pendingTimers, lastClose, manuallyClosed, delivery>>

\* The codes the close event of socket s can carry.  A socket that never opened
\* (a failed connection, or close() called while CONNECTING) closes with 1006.
CloseCodes(s) ==
    IF readyState[s] \in {"OPEN", "CLOSING"}
      THEN {NormalClosure, AbnormalClosure}
      ELSE {AbnormalClosure}

\* A backoff whose exponent is off by one.
BackoffDelay_ExponentOffByOne(n) == reconnectDelay * Pow2(n)

\* The delay scheduleReconnect computes once reconnectAttempts has become n.
BackoffDelay(n) == reconnectDelay * Pow2(n - 1)

\* A guard that lets one attempt too many through.
ShouldReconnect_OneTooMany(code, attempts) ==
    code # NormalClosure /\ attempts <= maxReconnectAttempts

\* The guard of onclose: reconnect unless closed normally or out of attempts.
ShouldReconnect(code, attempts) ==
    code # NormalClosure /\ attempts < maxReconnectAttempts

\* The close event of socket s with the given code: ws.onerror first when the
\* connection failed (same task), then ws.onclose, which may scheduleReconnect().
SocketClose(s, code) ==
    /\ readyState[s] \in LiveStates
    /\ code \in CloseCodes(s)
    /\ readyState' = [readyState EXCEPT ![s] = "CLOSED"]
    /\ connectionStatus' = "disconnected"
    /\ IF ShouldReconnect(code, reconnectAttempts)
         THEN /\ reconnectAttempts' = reconnectAttempts + 1
              /\ scheduledDelays' =
                     Append(scheduledDelays, BackoffDelay(reconnectAttempts + 1))
              /\ pendingTimers' = pendingTimers + 1
              /\ lastClose' = [code |-> code, scheduled |-> TRUE]
         ELSE /\ lastClose' = [code |-> code, scheduled |-> FALSE]
              /\ UNCHANGED <<reconnectAttempts, scheduledDelays, pendingTimers>>
    /\ UNCHANGED <<rcVars, uiVars>>
    /\ UNCHANGED <<ws, messageHandlers, taskId, onStatusChange, urlValid,
                   nSockets, manuallyClosed, delivery>>

\* The test the reconnect timer's callback makes before it calls connect().
TimerReconnects == connectionStatus = "disconnected"

\* A reconnect timer fires: the callback given to setTimeout in scheduleReconnect.
ReconnectTimer(limit) ==
    /\ pendingTimers > 0
    /\ pendingTimers' = pendingTimers - 1
    /\ IF TimerReconnects
         THEN /\ nSockets < limit
              /\ Cardinality(LiveSockets) < MaxLive
              /\ ConnectEffect(taskId, onStatusChange)
         ELSE UNCHANGED <<taskId, onStatusChange, nSockets, readyState, ws,
                          connectionStatus>>
    /\ UNCHANGED <<rcVars, uiVars>>
    /\ UNCHANGED <<reconnectAttempts, messageHandlers, scheduledDelays,
                   lastClose, manuallyClosed, delivery, urlValid>>

\* on(type, handler)
On(type, h) ==
    /\ messageHandlers' = MapSet(messageHandlers, type, h)
    /\ UNCHANGED <<rcVars, uiVars>>
    /\ UNCHANGED <<ws, reconnectAttempts, connectionStatus, taskId, onStatusChange,
                   urlValid, nSockets, readyState, pendingTimers, scheduledDelays,
                   lastClose, manuallyClosed, delivery>>

\* off(type)
Off(type) ==
    /\ MapHas(messageHandlers, type)
    /\ messageHandlers' = MapDelete(messageHandlers, type)
    /\ UNCHANGED <<rcVars, uiVars>>
    /\ UNCHANGED <<ws, reconnectAttempts, connectionStatus, taskId, onStatusChange,
                   urlValid, nSockets, readyState, pendingTimers, scheduledDelays,
                   lastClose, manuallyClosed, delivery>>

\* JSON.parse(event.data): throws a SyntaxError for a text that is not JSON.
JSONparse(raw) ==
    IF raw.syntax = "invalid"
      THEN [threw |-> TRUE, top |-> "none", type |-> "absent", payload |-> "absent"]
      ELSE [threw |-> FALSE, top |-> raw.top, type |-> raw.type, payload |-> raw.payload]

\* const { ... } = v throws a TypeError when v is undefined or null.
DestructureThrows(v) == v \in {"absent", "null"}

\* handleProgressUpdate .. handleCompleteUpdate: destructure the payload, then
\* emit(type, ...), which dispatches the window event websocket:<type>.
HandleUpdate(type, payload) ==
    IF DestructureThrows(payload)
      THEN [events |-> << >>, threw |-> TRUE]
      ELSE [events |-> <<type>>, threw |-> FALSE]

\* handleDefaultMessage(data): the switch on data.type.
HandleDefaultMessage(data) ==
    IF data.type \in DefaultTypes
      THEN HandleUpdate(data.type, data.payload)
      ELSE [events |-> << >>, threw |-> FALSE]

\* handleMessage(data): what it calls, what is dispatched, whether it throws.
HandleMessage(data) ==
    IF DestructureThrows(data.top)
      THEN [handlerCalls |-> << >>, defaultCalls |-> 0, events |-> << >>,
            threw |-> TRUE]
    ELSE IF data.type # "absent" /\ MapHas(messageHandlers, data.type)
      THEN [handlerCalls |-> <<messageHandlers[data.type]>>, defaultCalls |-> 0,
            events |-> << >>, threw |-> FALSE]
    ELSE LET r == HandleDefaultMessage(data) IN
           [handlerCalls |-> << >>, defaultCalls |-> 1, events |-> r.events,
            threw |-> r.threw]

\* The message event of socket s: ws.onmessage, whose try/catch swallows both a
\* parse error and anything handleMessage throws.
OnMessage(s, raw) ==
    /\ readyState[s] \in {"OPEN", "CLOSING"}
    /\ LET data == JSONparse(raw)
           r == HandleMessage(data)
       IN  delivery' =
             IF data.threw
               THEN [seq |-> 1 - delivery.seq, raw |-> raw, parsed |-> FALSE,
                     handlerCalls |-> << >>, defaultCalls |-> 0, events |-> << >>,
                     caught |-> TRUE]
               ELSE [seq |-> 1 - delivery.seq, raw |-> raw, parsed |-> TRUE,
                     handlerCalls |-> r.handlerCalls,
                     defaultCalls |-> r.defaultCalls, events |-> r.events,
                     caught |-> r.threw]
    /\ UNCHANGED <<rcVars, uiVars>>
    /\ UNCHANGED <<ws, reconnectAttempts, messageHandlers, connectionStatus, taskId,
                   onStatusChange, urlValid, nSockets, readyState, pendingTimers,
                   scheduledDelays, lastClose, manuallyClosed>>

-----------------------------------------------------------------------------
(***************************************************************************)
(* RequestController                                                       *)
(***************************************************************************)

RequestIds == {"a", "b"}
CallIds == 1..MaxCalls
MapRange(m) == {m[k] : k \in DOMAIN m}

\* The options callers pass to createCancellableRequest: its default timeout
\* with both callbacks given, and timeout 0 with an onTimeout that can never run.
RequestOptions ==
    { [timeout |-> 30000, onTimeout |-> TRUE, onCancel |-> TRUE],
      [timeout |-> 0, onTimeout |-> TRUE, onCancel |-> FALSE] }

\* The options callers pass to createCancellableOperation: its default timeout
\* with onCancel alone, and a negative timeout with no callback.
OperationOptions ==
    { [timeout |-> 300000, onTimeout |-> FALSE, onCancel |-> TRUE],
      [timeout |-> -1, onTimeout |-> FALSE, onCancel |-> FALSE] }

\* How the promise returned by apiCall / operation settles.
ApiOutcomes ==
    { [kind |-> "value", name |-> "none", message |-> "response"],
      [kind |-> "error", name |-> "AbortError", message |-> "The user aborted a request."],
      [kind |-> "error", name |-> "NetworkError", message |-> "Network Error"] }

NoOutcome == [kind |-> "none", name |-> "none", message |-> "none"]
NoOp == [op |-> "none", arg |-> "none", ret |-> "none"]

InitRC ==
    /\ abortControllers = EmptyMap
    /\ activeRequests = EmptyMap
    /\ requestTimeouts = EmptyMap
    /\ aborted = {}
    /\ timerState = [t \in CallIds |-> "none"]
    /\ calls = << >>
    /\ onTimeoutCalls = [r \in CallIds |-> 0]
    /\ onCancelCalls = [r \in CallIds |-> 0]
    /\ lastOp = NoOp

\* The controller's maps and the platform objects they refer to, as one value
\* the methods below take and return.
Store ==
    [abortControllers |-> abortControllers, activeRequests |-> activeRequests,
     requestTimeouts |-> requestTimeouts, aborted |-> aborted,
     timerState |-> timerState]

SetStore(st) ==
    /\ abortControllers' = st.abortControllers
    /\ activeRequests' = st.activeRequests
    /\ requestTimeouts' = st.requestTimeouts
    /\ aborted' = st.aborted
    /\ timerState' = st.timerState

\* clearTimeout(t): a pending timer will not fire; any other is left as it is.
ClearTimeout(ts, t) == IF ts[t] = "pending" THEN [ts EXCEPT ![t] = "cleared"] ELSE ts

\* A clearRequestTimeout that forgets the timer without clearing it.
clearRequestTimeout_ForgetsOnly(st, id) ==
    [st EXCEPT !.requestTimeouts = MapDelete(@, id)]

\* clearRequestTimeout(requestId); timer ids are positive, hence truthy.
clearRequestTimeout(st, id) ==
    IF MapHas(st.requestTimeouts, id)
      THEN [st EXCEPT !.timerState = ClearTimeout(@, st.requestTimeouts[id]),
                      !.requestTimeouts = MapDelete(@, id)]
      ELSE st

\* A clearAllTimeouts that empties the map without clearing the timers.
clearAllTimeouts_ForgetsOnly(st) ==
    [st EXCEPT !.requestTimeouts = EmptyMap]

\* clearAllTimeouts()
clearAllTimeouts(st) ==
    [st EXCEPT !.timerState =
                   [t \in DOMAIN @ |->
                      IF t \in MapRange(st.requestTimeouts)
                        THEN ClearTimeout(@, t)[t] ELSE @[t]],
               !.requestTimeouts = EmptyMap]

\* cancelRequest(requestId): the state it leaves ...
cancelRequest(st, id) ==
    IF MapHas(st.abortControllers, id)
      THEN clearRequestTimeout(
             [st EXCEPT !.aborted = @ \cup {st.abortControllers[id]},
                        !.abortControllers = MapDelete(@, id),
                        !.activeRequests = MapDelete(@, id)], id)
      ELSE st

\* ... and the value it returns.
cancelRequestReturns(st, id) == MapHas(st.abortControllers, id)

\* cancelAllRequests()
cancelAllRequests(st) ==
    clearAllTimeouts(
      [st EXCEPT !.aborted = @ \cup MapRange(st.abortControllers),
                 !.abortControllers = EmptyMap,
                 !.activeRequests = EmptyMap])

\* cleanup()
cleanup(st) == clearAllTimeouts(cancelAllRequests(st))

\* A createAbortController that registers the new controller over the old one.
createAbortController_NoCancel(st, id, c) ==
    [st EXCEPT !.abortControllers = MapSet(@, id, c)]

\* createAbortController(requestId), c being the new AbortController.
createAbortController(st, id, c) ==
    LET s1 == cancelRequest(st, id)
    IN  [s1 EXCEPT !.abortControllers = MapSet(@, id, c)]

\* setRequestTimeout(requestId, timeoutMs, onTimeout), t being the id setTimeout returns.
setRequestTimeout(st, id, t) ==
    LET s1 == clearRequestTimeout(st, id)
    IN  [s1 EXCEPT !.timerState = [@ EXCEPT ![t] = "pending"],
                   !.requestTimeouts = MapSet(@, id, t)]

\* markRequestActive(requestId, requestInfo)
markRequestActive(st, id, info) ==
    [st EXCEPT !.activeRequests = MapSet(@, id, info)]

\* A markRequestCompleted that leaves the request's timeout armed.
markRequestCompleted_KeepsTimeout(st, id) ==
    [st EXCEPT !.activeRequests = MapDelete(@, id),
               !.abortControllers = MapDelete(@, id)]

\* markRequestCompleted(requestId)
markRequestCompleted(st, id) ==
    clearRequestTimeout(
      [st EXCEPT !.activeRequests = MapDelete(@, id),
                 !.abortControllers = MapDelete(@, id)], id)

\* A timeout test that also arms a timer for timeout 0.
ArmsTimeout_IncludesZero(timeout) == timeout >= 0

\* if (timeout > 0) in createCancellableRequest / createCancellableOperation
ArmsTimeout(timeout) == timeout > 0

\* The request info each of the two methods registers.
RequestType(kind) == IF kind = "request" THEN "api_call" ELSE "long_operation"

\* The error each of the two methods throws for a cancelled call.
CancelledError(kind) ==
    [kind |-> "error", name |-> "Error",
     message |-> IF kind = "request" THEN "Request was cancelled"
                                      ELSE "Operation was cancelled"]

\* An abort test that looks for the name axios gives its cancellation error.
IsAbortError_WrongName(err) == err.name = "CanceledError"

\* error.name === 'AbortError'
IsAbortError(err) == err.name = "AbortError"

\* The caller invokes createCancellableRequest (kind "request") or
\* createCancellableOperation (kind "operation"); the call runs up to its await.
\* The new controller and the new timer carry the number of the call.
CreateCancellable(kind, id, opt) ==
    /\ Len(calls) < MaxCalls
    /\ LET r == Len(calls) + 1
           s1 == createAbortController(Store, id, r)
           s2 == IF ArmsTimeout(opt.timeout) THEN setRequestTimeout(s1, id, r) ELSE s1
           s3 == markRequestActive(s2, id, RequestType(kind))
       IN  /\ SetStore(s3)
           /\ calls' = Append(calls,
                  [id |-> id, kind |-> kind, timeout |-> opt.timeout,
                   timer |-> IF MapHas(s3.requestTimeouts, id)
                                  /\ s3.requestTimeouts[id] = r THEN r ELSE 0,
                   onTimeout |-> opt.onTimeout, onCancel |-> opt.onCancel,
                   state |-> "pending", apiOutcome |-> NoOutcome,
                   delivered |-> NoOutcome])
           /\ lastOp' = NoOp
    /\ UNCHANGED <<onTimeoutCalls, onCancelCalls>>
    /\ UNCHANGED <<wsVars, uiVars>>

\* The promise awaited by call r settles with outcome o: the rest of the try
\* block, or the catch block, runs and the call's own promise settles.
ApiSettles(r, o) ==
    /\ r \in DOMAIN calls
    /\ calls[r].state = "pending"
    /\ LET c == calls[r] IN
         IF o.kind = "value"
           THEN /\ SetStore(markRequestCompleted(Store, c.id))
                /\ calls' = [calls EXCEPT ![r].state = "settled",
                                          ![r].apiOutcome = o, ![r].delivered = o]
                /\ UNCHANGED onCancelCalls
         ELSE IF IsAbortError(o)
           THEN /\ onCancelCalls' =
                       IF c.onCancel THEN [onCancelCalls EXCEPT ![r] = @ + 1]
                                     ELSE onCancelCalls
                /\ calls' = [calls EXCEPT ![r].state = "settled",
                                          ![r].apiOutcome = o,
                                          ![r].delivered = CancelledError(c.kind)]
                /\ UNCHANGED rcStore
         ELSE /\ SetStore(markRequestCompleted(Store, c.id))
              /\ calls' = [calls EXCEPT ![r].state = "settled",
                                        ![r].apiOutcome = o, ![r].delivered = o]
              /\ UNCHANGED onCancelCalls
    /\ lastOp' = NoOp
    /\ UNCHANGED onTimeoutCalls
    /\ UNCHANGED <<wsVars, uiVars>>

\* Timer t fires: the callback setRequestTimeout gave to setTimeout for call t.
TimeoutFires(t) ==
    /\ timerState[t] = "pending"
    /\ SetStore(cancelRequest([Store EXCEPT !.timerState = [@ EXCEPT ![t] = "fired"]],
                              calls[t].id))
    /\ onTimeoutCalls' = IF calls[t].onTimeout
                           THEN [onTimeoutCalls EXCEPT ![t] = @ + 1]
                           ELSE onTimeoutCalls
    /\ lastOp' = NoOp
    /\ UNCHANGED <<calls, onCancelCalls>>
    /\ UNCHANGED <<wsVars, uiVars>>

\* The caller invokes cancelRequest(id).
CancelRequest(id) ==
    /\ SetStore(cancelRequest(Store, id))
    /\ lastOp' = [op |-> "cancelRequest", arg |-> id,
                  ret |-> cancelRequestReturns(Store, id)]
    /\ UNCHANGED <<calls, onTimeoutCalls, onCancelCalls>>
    /\ UNCHANGED <<wsVars, uiVars>>

\* The caller invokes cancelAllRequests().
CancelAllRequests ==
    /\ SetStore(cancelAllRequests(Store))
    /\ lastOp' = [op |-> "cancelAllRequests", arg |-> "none", ret |-> "none"]
    /\ UNCHANGED <<calls, onTimeoutCalls, onCancelCalls>>
    /\ UNCHANGED <<wsVars, uiVars>>

\* The caller invokes cleanup().
Cleanup ==
    /\ SetStore(cleanup(Store))
    /\ lastOp' = [op |-> "cleanup", arg |-> "none", ret |-> "none"]
    /\ UNCHANGED <<calls, onTimeoutCalls, onCancelCalls>>
    /\ UNCHANGED <<wsVars, uiVars>>

-----------------------------------------------------------------------------
(***************************************************************************)
(* FolderJoiner (pages/FolderJoiner.js)                                    *)
(* A handler runs to completion; an async handler is split at its await,   *)
(* and its continuation, a microtask, runs before any other handler.       *)
(***************************************************************************)

\* the session files a user may upload, and what may be typed as folder link
FJSessionFiles == {"s1.session", "s2.session"}
FolderLinks == {"", "  ", "https://t.me/addlist/abc"}
\* `folder_join_${Date.now()}` for the instants at which a join may start
FolderJoinIds == {"folder_join_1", "folder_join_2"}

\* !folderLink.trim()
IsBlank(link) == link \in {"", "  "}

\* The value of `this` inside a method that is called through the named
\* exports: they are destructured from the instance, so the call has no
\* receiver, and module code is strict.
ThisOfNamedExport == "undefined"

TypeErrorOfUndefinedThis ==
    [kind |-> "error", name |-> "TypeError",
     message |-> "Cannot read properties of undefined (reading 'createAbortController')"]

TypeErrorNotAFunction ==
    [kind |-> "error", name |-> "TypeError",
     message |-> "createCancellableRequest.cancelRequest is not a function"]

\* createCancellableRequest(requestId, apiCall, options) up to the first use of
\* `this`, which is this.createAbortController(requestId): with no receiver the
\* async method rejects there, before a controller exists and before apiCall
\* is invoked.
RejectsBeforeApiCall(thisArg) == thisArg = "undefined"

\* handleError(err, fallback, {returnDetails: true}).message for an error
\* object that carries no response
handleErrorMessage(err, fallback) ==
    IF err.message # "" THEN err.message ELSE fallback

NoPromise == [state |-> "none", reason |-> NoOutcome]

InitFJ ==
    /\ sessions = {}
    /\ selectedSessions = {}
    /\ folderLink = ""
    /\ isLoading = FALSE
    /\ results = "null"
    /\ error = ""
    /\ requestId = "null"
    /\ joinPromise = NoPromise
    /\ joinFolderCalls = << >>
    /\ uncaught = NoOutcome

\* handleSessionFilesSelected(files)
HandleSessionFilesSelected(files) ==
    /\ joinPromise = NoPromise
    /\ sessions' = files
    /\ selectedSessions' = files
    /\ UNCHANGED <<folderLink, isLoading, results, error, requestId, joinPromise,
                   joinFolderCalls, uncaught>>
    /\ UNCHANGED fjFrame

\* handleSessionSelectionChange(session, isSelected), from a session's checkbox
HandleSessionSelectionChange(session, isSelected) ==
    /\ joinPromise = NoPromise
    /\ session \in sessions
    /\ isSelected = (session \notin selectedSessions)
    /\ selectedSessions' = IF isSelected THEN selectedSessions \cup {session}
                                         ELSE selectedSessions \ {session}
    /\ UNCHANGED <<sessions, folderLink, isLoading, results, error, requestId,
                   joinPromise, joinFolderCalls, uncaught>>
    /\ UNCHANGED fjFrame

\* the folder link input: setFolderLink(e.target.value)
SetFolderLink(link) ==
    /\ joinPromise = NoPromise
    /\ folderLink' = link
    /\ UNCHANGED <<sessions, selectedSessions, isLoading, results, error, requestId,
                   joinPromise, joinFolderCalls, uncaught>>
    /\ UNCHANGED fjFrame

\* handleJoinFolder(), up to its await; newRequestId is the id it generates.
HandleJoinFolder(newRequestId) ==
    /\ joinPromise = NoPromise
    /\ IF IsBlank(folderLink)
         THEN /\ error' = "Please enter a folder link"
              /\ UNCHANGED <<isLoading, results, requestId, joinPromise,
                             joinFolderCalls>>
              /\ UNCHANGED rcVars
       ELSE IF selectedSessions = {}
         THEN /\ error' = "Please select at least one session"
              /\ UNCHANGED <<isLoading, results, requestId, joinPromise,
                             joinFolderCalls>>
              /\ UNCHANGED rcVars
       ELSE /\ isLoading' = TRUE
            /\ error' = ""
            /\ results' = "null"
            /\ requestId' = newRequestId
            /\ RejectsBeforeApiCall(ThisOfNamedExport)
            /\ joinPromise' = [state |-> "rejected", reason |-> TypeErrorOfUndefinedThis]
            /\ UNCHANGED joinFolderCalls
            /\ UNCHANGED rcVars
    /\ UNCHANGED <<sessions, selectedSessions, folderLink, uncaught>>
    /\ UNCHANGED <<wsVars, fvVars, fuVars, ppVars, nmVars, acVars>>

\* The rest of handleJoinFolder once the awaited promise has settled: the
\* catch block for a rejection, then the finally block.
JoinFolderContinues ==
    /\ joinPromise.state = "rejected"
    /\ error' = IF joinPromise.reason.message = "Request was cancelled"
                  THEN error
                  ELSE handleErrorMessage(joinPromise.reason, "Failed to join folder")
    /\ isLoading' = FALSE
    /\ requestId' = "null"
    /\ joinPromise' = NoPromise
    /\ UNCHANGED <<sessions, selectedSessions, folderLink, results, joinFolderCalls,
                   uncaught>>
    /\ UNCHANGED fjFrame

\* handleCancel(): createCancellableRequest is a function with no cancelRequest
\* property, so the call inside the if throws before setRequestId(null).
HandleCancel ==
    /\ joinPromise = NoPromise
    /\ uncaught' = IF requestId # "null" THEN TypeErrorNotAFunction ELSE NoOutcome
    /\ UNCHANGED <<sessions, selectedSessions, folderLink, isLoading, results, error,
                   requestId, joinPromise, joinFolderCalls>>
    /\ UNCHANGED fjFrame

-----------------------------------------------------------------------------
(***************************************************************************)
(* File validation (utils/fileValidation.js)                               *)
(* A file is its name and its size in bytes.  A name is kept as the part   *)
(* before its last dot and the part from that dot on, which is all the     *)
(* code looks at.                                                          *)
(***************************************************************************)

\* FILE_TYPES
SESSION == ".session"
ZIP == ".zip"
ALL_IMAGES == <<".jpg", ".jpeg", ".png", ".gif", ".bmp", ".webp">>
ALL_SESSION_FILES == <<".session", ".zip">>

\* FILE_SIZES
MAX_SESSION_FILE == 5 * 1024 * 1024
MAX_IMAGE_FILE == 10 * 1024 * 1024
MAX_ZIP_FILE == 50 * 1024 * 1024
MIN_IMAGE_FILE == 1024

\* number of files in one validateFileUpload call
MaxListLen == 2

\* the name endings and the sizes of the files a user may pick
FileExts == {".session", ".SESSION", ".zip", ".ZIP", ".jpg", ".jpeg", ".png", ".gif",
             ".txt"}
FileSizes == {1000, MAX_SESSION_FILE, MAX_SESSION_FILE + 1, MAX_ZIP_FILE,
              MAX_ZIP_FILE + 1}
Files == [stem : {"a"}, ext : FileExts, size : FileSizes]

RECURSIVE SeqsUpTo(_, _)
SeqsUpTo(S, n) ==
    IF n = 0 THEN {<< >>}
    ELSE LET shorter == SeqsUpTo(S, n - 1)
         IN  shorter \cup {Append(q, x) : q \in {r \in shorter : Len(r) = n - 1}, x \in S}

FileLists == SeqsUpTo(Files, MaxListLen)
UseCases == {"session", "image", "zip", "mixed", "video"}

\* String.prototype.toLowerCase on a name ending
ToLowerCase(ext) ==
    CASE ext = ".SESSION" -> ".session"
      [] ext = ".ZIP" -> ".zip"
      [] OTHER -> ext

\* file.name.endsWith(suffix), suffix being one of '.session' and '.zip'
EndsWith(file, suffix) == file.ext = suffix

Contains(list, x) == \E i \in DOMAIN list : list[i] = x

\* allowedTypes.join(', ')
JoinTypes(allowedTypes) ==
    CASE allowedTypes = ALL_SESSION_FILES -> ".session, .zip"
      [] allowedTypes = <<ZIP>> -> ".zip"
      [] OTHER -> ".jpg, .jpeg, .png, .gif, .bmp, .webp"

\* (maxSize / (1024 * 1024)).toFixed(1) + 'MB'
MaxSizeMB(maxSize) ==
    CASE maxSize = MAX_SESSION_FILE -> "5.0MB"
      [] maxSize = MAX_IMAGE_FILE -> "10.0MB"
      [] OTHER -> "50.0MB"

\* What a validator returns: isValid, and error where the code sets it.
Valid == [isValid |-> TRUE, error |-> <<"undefined">>]
Invalid(text) == [isValid |-> FALSE, error |-> text]

\* validateFileType(file, allowedTypes)
validateFileType(file, allowedTypes) ==
    LET fileExtension == ToLowerCase(file.ext)
    IN  IF ~Contains(allowedTypes, fileExtension)
          THEN Invalid(<<"File type not allowed. Allowed types: ", JoinTypes(allowedTypes)>>)
          ELSE Valid

\* validateFileSize(file, maxSize, minSize)
validateFileSize(file, maxSize, minSize) ==
    IF file.size > maxSize
      THEN Invalid(<<"File too large. Maximum size: ", MaxSizeMB(maxSize)>>)
    ELSE IF minSize > 0 /\ file.size < minSize
      THEN Invalid(<<"File too small. Minimum size: ", "1.0KB">>)
    ELSE Valid

\* validateSessionFile(file)
validateSessionFile(file) ==
    LET typeValidation == validateFileType(file, ALL_SESSION_FILES)
        sizeValidation == validateFileSize(file, MAX_SESSION_FILE, 0)
    IN  IF ~typeValidation.isValid THEN typeValidation
        ELSE IF ~sizeValidation.isValid THEN sizeValidation
        ELSE Valid

\* validateImageFile(file)
validateImageFile(file) ==
    LET typeValidation == validateFileType(file, ALL_IMAGES)
        sizeValidation == validateFileSize(file, MAX_IMAGE_FILE, MIN_IMAGE_FILE)
    IN  IF ~typeValidation.isValid THEN typeValidation
        ELSE IF ~sizeValidation.isValid THEN sizeValidation
        ELSE Valid

\* a && b on two validation results: an object is truthy whatever its isValid
\* field says, so the value is b.
IsTruthy(object) == object.isValid \in BOOLEAN
LogicalAnd(a, b) == IF IsTruthy(a) THEN b ELSE a

\* validators['zip']
validateZip(file) ==
    LogicalAnd(validateFileType(file, <<ZIP>>), validateFileSize(file, MAX_ZIP_FILE, 0))

\* validators['mixed']
validateMixed(file) ==
    IF EndsWith(file, SESSION) THEN validateSessionFile(file)
    ELSE IF EndsWith(file, ZIP)
      THEN LogicalAnd(validateFileType(file, <<ZIP>>),
                      validateFileSize(file, MAX_ZIP_FILE, 0))
    ELSE Invalid(<<"Invalid file type">>)

\* validators[useCase](file)
Validator(useCase, file) ==
    CASE useCase = "session" -> validateSessionFile(file)
      [] useCase = "image" -> validateImageFile(file)
      [] useCase = "zip" -> validateZip(file)
      [] useCase = "mixed" -> validateMixed(file)

\* the i-th index of list, in order, whose file the use case finds valid (or not)
IndicesWhere(list, useCase, wanted) ==
    {i \in DOMAIN list : Validator(useCase, list[i]).isValid = wanted}
NthOf(S, n) == CHOOSE i \in S : Cardinality({k \in S : k < i}) = n - 1

\* validateMultipleFiles(files, validators[useCase]); the early return carries
\* only isValid and error (listed = FALSE: the list fields are undefined).
validateMultipleFiles(files, useCase) ==
    IF Len(files) = 0
      THEN [isValid |-> FALSE, error |-> <<"No files provided">>, listed |-> FALSE,
            validFiles |-> << >>, invalidFiles |-> << >>,
            totalFiles |-> 0, validCount |-> 0, invalidCount |-> 0]
      ELSE LET good == IndicesWhere(files, useCase, TRUE)
               bad == IndicesWhere(files, useCase, FALSE)
               valid == [n \in 1..Cardinality(good) |->
                             [file |-> files[NthOf(good, n)], index |-> NthOf(good, n) - 1]]
               errors == [n \in 1..Cardinality(bad) |->
                            [file |-> files[NthOf(bad, n)], index |-> NthOf(bad, n) - 1,
                             error |-> Validator(useCase, files[NthOf(bad, n)]).error]]
           IN  [isValid |-> Len(errors) = 0, error |-> <<"undefined">>, listed |-> TRUE,
                validFiles |-> valid, invalidFiles |-> errors,
                totalFiles |-> Len(files), validCount |-> Len(valid),
                invalidCount |-> Len(errors)]

\* validateFileUpload(files, useCase)
validateFileUpload(files, useCase) ==
    IF useCase \notin {"session", "image", "zip", "mixed"}
      THEN [isValid |-> FALSE, error |-> <<"Unknown use case: ", useCase>>,
            listed |-> FALSE, validFiles |-> << >>, invalidFiles |-> << >>,
            totalFiles |-> 0, validCount |-> 0, invalidCount |-> 0]
      ELSE validateMultipleFiles(files, useCase)

NoResult == validateFileUpload(<< >>, "none")
NoValidation == [called |-> FALSE, files |-> << >>, useCase |-> "none",
                 result |-> NoResult]

InitFV == validation = NoValidation

\* the arguments of a call a caller is about to make
InputsFV ==
    validation \in [called : {FALSE}, files : FileLists, useCase : UseCases,
                    result : {NoResult}]

\* The caller invokes validateFileUpload(files, useCase).
ValidateFileUpload ==
    /\ ~validation.called
    /\ validation' = [validation EXCEPT
                        !.called = TRUE,
                        !.result = validateFileUpload(validation.files,
                                                      validation.useCase)]
    /\ UNCHANGED fvFrame

-----------------------------------------------------------------------------
(***************************************************************************)
(* FileUpload (components/FileUpload.js)                                   *)
(* Modelled: the files state, and what onDrop, removeFile and the          *)
(* continuation of processZipFile pass to the validation utilities, to     *)
(* toast, to the backend and to the parent's onFilesSelected.              *)
(***************************************************************************)

\* the files a user may drop on a FileUpload
DropExts == {".session", ".SESSION", ".zip", ".png"}
DropSizes == {MAX_SESSION_FILE, MAX_SESSION_FILE + 1, MAX_ZIP_FILE + 1}
DropFiles == {f \in Files : f.ext \in DropExts /\ f.size \in DropSizes}
\* the session files the backend may extract from a ZIP
ExtractedLists == {<< >>, <<[stem |-> "b", ext |-> ".session", size |-> 1000]>>}
\* what one drop may hand to onDrop
DropLists == SeqsUpTo(DropFiles, MaxListLen)

NoFile == [stem |-> "", ext |-> "", size |-> 0]
FileName(file) == <<file.stem, file.ext>>

\* the props of a FileUpload: the defaults, and none for no instance
DefaultProps ==
    [acceptedFileTypes |-> <<".session", ".zip">>, multiple |-> TRUE,
     onFilesSelected |-> "onFilesSelected"]
NotMounted ==
    [acceptedFileTypes |-> << >>, multiple |-> FALSE, onFilesSelected |-> "none"]

\* isProfilePictureUpload in the effect of lines 22-31
IsProfilePictureUpload(props) ==
    \E i \in DOMAIN props.acceptedFileTypes : Contains(ALL_IMAGES, props.acceptedFileTypes[i])

\* file.name.toLowerCase().endsWith(suffix)
LowerEndsWith(file, suffix) == ToLowerCase(file.ext) = suffix

\* An onDrop that shows the toasts but goes on with every file it was given.
onDropAfterValidation_KeepsInvalid(prev, acceptedFiles, validationResult) ==
    LET threw == ~validationResult.isValid /\ ~validationResult.listed
        toasts == IF validationResult.isValid THEN << >>
                  ELSE [n \in DOMAIN validationResult.invalidFiles |->
                          [file |-> validationResult.invalidFiles[n].file,
                           error |-> validationResult.invalidFiles[n].error]]
    IN  [threw |-> threw, toasts |-> toasts,
         zipFiles |-> SelectSeq(acceptedFiles, LAMBDA f : LowerEndsWith(f, ZIP)),
         sessionFiles |-> SelectSeq(acceptedFiles, LAMBDA f : LowerEndsWith(f, SESSION))]

\* The body of onDrop(acceptedFiles) from line 125 on, validationResult being
\* the value line 123 computed and prev the files state: what it leaves in
\* files and what it passes on.  A result without an invalidFiles field makes
\* the forEach call of line 127 throw.
onDropAfterValidation(prev, acceptedFiles, validationResult) ==
    LET threw == ~validationResult.isValid /\ ~validationResult.listed
        toasts == IF validationResult.isValid THEN << >>
                  ELSE [n \in DOMAIN validationResult.invalidFiles |->
                          [file |-> validationResult.invalidFiles[n].file,
                           error |-> validationResult.invalidFiles[n].error]]
        accepted == IF validationResult.isValid THEN acceptedFiles
                    ELSE [n \in DOMAIN validationResult.validFiles |->
                            validationResult.validFiles[n].file]
    IN  [threw |-> threw, toasts |-> toasts,
         zipFiles |-> SelectSeq(accepted, LAMBDA f : LowerEndsWith(f, ZIP)),
         sessionFiles |-> SelectSeq(accepted, LAMBDA f : LowerEndsWith(f, SESSION))]

\* onDrop(acceptedFiles)
onDrop(prev, acceptedFiles) ==
    onDropAfterValidation(prev, acceptedFiles, validateFileUpload(acceptedFiles, "mixed"))

\* The onFilesSelected calls that follow a handler which called it with
\* `direct` (or not at all: direct = << >>) and left newFiles in files: the
\* effect of lines 22-31 runs after the render that a change of files causes.
CallbackCalls(props, direct, changed, newFiles) ==
    direct \o (IF changed /\ IsProfilePictureUpload(props) /\ Len(newFiles) > 0
                 THEN <<newFiles>> ELSE << >>)

NoCall == [handler |-> "none", acceptedFiles |-> << >>, index |-> 0]

InitFU(props) ==
    /\ mounted = props
    /\ lastCall = NoCall
    /\ fuFiles = << >>
    /\ zipCalls = {}
    /\ errorToasts = << >>
    /\ zipsSent = << >>
    /\ selectedCalls = << >>

(***************************************************************************)
(* ProfilePictureManager (pages/ProfilePictureManager.js)                  *)
(***************************************************************************)

totalSteps == 4

\* the FileUpload that renderStep1 / renderStep2 put on the page
PropsAt(step) ==
    CASE step = 1 -> [acceptedFileTypes |-> <<".session", ".zip">>, multiple |-> TRUE,
                      onFilesSelected |-> "handleSessionFilesSelected"]
      [] step = 2 -> [acceptedFileTypes |-> ALL_IMAGES, multiple |-> FALSE,
                      onFilesSelected |-> "handleProfilePictureSelected"]
      [] OTHER -> NotMounted

NoUpdate == [called |-> FALSE, sessions |-> << >>, picture |-> NoFile]

InitPP ==
    /\ currentStep = 1
    /\ sessionFiles = << >>
    /\ profilePicture = NoFile
    /\ ppSelectedSessions = {}
    /\ ppResults = "empty"
    /\ loading = FALSE
    /\ lastUpdate = NoUpdate

\* A canProceedToNextStep that lets step 2 pass without a picture.
canProceedToNextStep_SkipsPicture ==
    CASE currentStep = 1 -> Len(sessionFiles) > 0
      [] currentStep = 2 -> TRUE
      [] currentStep = 3 -> ppSelectedSessions # {}
      [] OTHER -> TRUE

\* canProceedToNextStep
canProceedToNextStep ==
    CASE currentStep = 1 -> Len(sessionFiles) > 0
      [] currentStep = 2 -> profilePicture # NoFile
      [] currentStep = 3 -> ppSelectedSessions # {}
      [] OTHER -> TRUE

\* What the parent does with a sequence of onFilesSelected calls: nothing for
\* the callback of a FileUpload outside this page, handleSessionFilesSelected
\* or handleProfilePictureSelected for each call otherwise.
ParentHandles(callback, callList) ==
    LET nonEmpty == SelectSeq(callList, LAMBDA c : Len(c) > 0) IN
    /\ IF callback = "handleSessionFilesSelected" /\ Len(callList) > 0
         THEN /\ sessionFiles' = callList[Len(callList)]
              /\ ppSelectedSessions' =
                     {FileName(callList[Len(callList)][i]) :
                          i \in DOMAIN callList[Len(callList)]}
              /\ ppResults' = "empty"
              /\ UNCHANGED profilePicture
       ELSE IF callback = "handleProfilePictureSelected" /\ Len(nonEmpty) > 0
         THEN /\ profilePicture' = nonEmpty[Len(nonEmpty)][1]
              /\ ppResults' = "empty"
              /\ UNCHANGED <<sessionFiles, ppSelectedSessions>>
       ELSE UNCHANGED <<sessionFiles, profilePicture, ppSelectedSessions, ppResults>>
    /\ UNCHANGED <<currentStep, loading, lastUpdate>>

\* What an onDrop call that did `did` leaves behind: setFiles, the
\* processZipFile calls, the toasts and the parent's callback.
OnDropDoes(did) ==
    LET newFiles == fuFiles \o did.sessionFiles
        direct == IF Len(did.sessionFiles) > 0 THEN <<did.sessionFiles>> ELSE << >>
        callList == CallbackCalls(mounted, direct, Len(did.sessionFiles) > 0, newFiles)
    IN  /\ Len(newFiles) <= MaxListLen
        /\ fuFiles' = newFiles
        /\ zipCalls' = IF Len(did.zipFiles) > 0
                         THEN zipCalls \cup {mounted.onFilesSelected} ELSE zipCalls
        /\ errorToasts' = did.toasts
        /\ zipsSent' = did.zipFiles
        /\ selectedCalls' = callList
        /\ ParentHandles(mounted.onFilesSelected, callList)

\* The dropzone calls onDrop(acceptedFiles); an instance with multiple = false
\* is handed at most one file.
OnDrop(acceptedFiles) ==
    /\ mounted # NotMounted
    /\ mounted.multiple \/ Len(acceptedFiles) <= 1
    /\ OnDropDoes(onDrop(fuFiles, acceptedFiles))
    /\ lastCall' = [handler |-> "onDrop", acceptedFiles |-> acceptedFiles, index |-> 0]
    /\ UNCHANGED mounted
    /\ UNCHANGED ppFrame

\* removeFile(index), from the remove control of a listed file
RemoveFile(index) ==
    /\ mounted # NotMounted
    /\ index \in DOMAIN fuFiles
    /\ LET newFiles == [i \in 1..(Len(fuFiles) - 1) |->
                          IF i < index THEN fuFiles[i] ELSE fuFiles[i + 1]]
           callList == CallbackCalls(mounted, <<newFiles>>, TRUE, newFiles)
       IN  /\ fuFiles' = newFiles
           /\ selectedCalls' = callList
           /\ ParentHandles(mounted.onFilesSelected, callList)
    /\ lastCall' = [handler |-> "removeFile", acceptedFiles |-> << >>, index |-> index]
    /\ errorToasts' = << >>
    /\ zipsSent' = << >>
    /\ UNCHANGED <<mounted, zipCalls>>
    /\ UNCHANGED ppFrame

\* The rest of a processZipFile call once the backend has answered: with the
\* extracted sessions it calls the onFilesSelected it was created with, with
\* an error it only shows a toast.
ZipProcessed(callback, succeeded, extracted) ==
    /\ callback \in zipCalls
    /\ zipCalls' = zipCalls \ {callback}
    /\ IF succeeded THEN ParentHandles(callback, <<extracted>>)
                    ELSE UNCHANGED ppVars
    /\ UNCHANGED <<mounted, fuFiles, lastCall, errorToasts, zipsSent, selectedCalls>>
    /\ UNCHANGED ppFrame

\* a step change puts another FileUpload, or none, on the page
Remount(step) ==
    /\ mounted' = PropsAt(step)
    /\ fuFiles' = << >>
    /\ lastCall' = NoCall
    /\ errorToasts' = << >>
    /\ zipsSent' = << >>
    /\ selectedCalls' = << >>
    /\ UNCHANGED zipCalls

\* the Next control: enabled by lines 546-548, it runs nextStep()
NextStep ==
    /\ mounted.onFilesSelected # "onFilesSelected"
    /\ canProceedToNextStep /\ currentStep # totalSteps
    /\ currentStep' = IF currentStep < totalSteps THEN currentStep + 1 ELSE currentStep
    /\ Remount(currentStep')
    /\ UNCHANGED <<sessionFiles, profilePicture, ppSelectedSessions, ppResults, loading,
                   lastUpdate>>
    /\ UNCHANGED ppFrame

\* the Previous control: enabled by line 531, it runs prevStep()
PrevStep ==
    /\ mounted.onFilesSelected # "onFilesSelected"
    /\ currentStep # 1
    /\ currentStep' = IF currentStep > 1 THEN currentStep - 1 ELSE currentStep
    /\ Remount(currentStep')
    /\ UNCHANGED <<sessionFiles, profilePicture, ppSelectedSessions, ppResults, loading,
                   lastUpdate>>
    /\ UNCHANGED ppFrame

\* the controls of step 3: handleSessionSelectionChange(filename, isSelected)
\* from a session's checkbox, handleSelectAllSessions, handleDeselectAllSessions
SelectSessions(newSelection) ==
    /\ currentStep = 3
    /\ ppSelectedSessions' = newSelection
    /\ UNCHANGED <<currentStep, sessionFiles, profilePicture, ppResults, loading,
                   lastUpdate>>
    /\ UNCHANGED <<fuVars, ppFrame>>

PPHandleSessionSelectionChange(filename, isSelected) ==
    /\ \E i \in DOMAIN sessionFiles : FileName(sessionFiles[i]) = filename
    /\ isSelected = (filename \notin ppSelectedSessions)
    /\ SelectSessions(IF isSelected THEN ppSelectedSessions \cup {filename}
                                    ELSE ppSelectedSessions \ {filename})

HandleSelectAllSessions ==
    SelectSessions({FileName(sessionFiles[i]) : i \in DOMAIN sessionFiles})

HandleDeselectAllSessions == SelectSessions({})

\* getSelectedSessionFiles()
getSelectedSessionFiles ==
    SelectSeq(sessionFiles, LAMBDA f : FileName(f) \in ppSelectedSessions)

\* handleUpdateProfilePictures(), from the control of step 4, up to its await
HandleUpdateProfilePictures ==
    /\ currentStep = 4
    /\ ~loading
    /\ IF Len(getSelectedSessionFiles) = 0 \/ profilePicture = NoFile
         THEN UNCHANGED <<loading, ppResults, lastUpdate>>
         ELSE /\ loading' = TRUE
              /\ ppResults' = "empty"
              /\ lastUpdate' = [called |-> TRUE, sessions |-> getSelectedSessionFiles,
                                picture |-> profilePicture]
    /\ UNCHANGED <<currentStep, sessionFiles, profilePicture, ppSelectedSessions>>
    /\ UNCHANGED <<fuVars, ppFrame>>

\* The rest of handleUpdateProfilePictures once the request has settled: with
\* a response that has results, with one that has none, or with an error.
UpdateSettles(outcome) ==
    /\ loading
    /\ ppResults' = CASE outcome = "results" -> "results"
                      [] outcome = "error" -> "errorResults"
                      [] OTHER -> ppResults
    /\ loading' = FALSE
    /\ UNCHANGED <<currentStep, sessionFiles, profilePicture, ppSelectedSessions,
                   lastUpdate>>
    /\ UNCHANGED <<fuVars, ppFrame>>

-----------------------------------------------------------------------------
(***************************************************************************)
(* NameManager (pages/BioManager.js, second component)                     *)
(***************************************************************************)

\* the session files the FileUpload may hand over, and what may be typed
NMFileNames == {"a.session", "b.session"}
Names == {"", "Alice", "Bob"}

\* fileName.replace('.session', '')
SessionName(fileName) ==
    CASE fileName = "a.session" -> "a"
      [] fileName = "b.session" -> "b"

\* defaultName || sessionName: the empty string is falsy
OrElse(name, fallback) == IF name # "" THEN name ELSE fallback

InitNM ==
    /\ nmFiles = {}
    /\ nmResults = "empty"
    /\ nmLoading = FALSE
    /\ nameMapping = EmptyMap
    /\ defaultName = ""
    /\ edited = {}

\* handleFilesSelected(selectedFiles)
NMHandleFilesSelected(selectedFiles) ==
    /\ nmFiles' = selectedFiles
    /\ nmResults' = "empty"
    /\ nameMapping' = [sessionName \in {SessionName(f) : f \in selectedFiles} |->
                         OrElse(defaultName, sessionName)]
    /\ edited' = {}
    /\ UNCHANGED <<nmLoading, defaultName>>
    /\ UNCHANGED nmFrame

\* the Default Name input: setDefaultName(e.target.value)
SetDefaultName(name) ==
    /\ defaultName' = name
    /\ UNCHANGED <<nmFiles, nmResults, nmLoading, nameMapping, edited>>
    /\ UNCHANGED nmFrame

\* handleNameChange(sessionName, newName), from the input of a listed file
HandleNameChange(sessionName, newName) ==
    /\ sessionName \in {SessionName(f) : f \in nmFiles}
    /\ nameMapping' = MapSet(nameMapping, sessionName, newName)
    /\ edited' = edited \cup {sessionName}
    /\ UNCHANGED <<nmFiles, nmResults, nmLoading, defaultName>>
    /\ UNCHANGED nmFrame

\* handleUpdateNames(), from the Update Names button, up to its await
HandleUpdateNames ==
    /\ nmFiles # {}
    /\ ~nmLoading
    /\ nmLoading' = (DOMAIN nameMapping # {})
    /\ UNCHANGED <<nmFiles, nmResults, nameMapping, defaultName, edited>>
    /\ UNCHANGED nmFrame

\* The rest of handleUpdateNames once sessionAPI.updateNames has settled.
UpdateNamesSettles(succeeded) ==
    /\ nmLoading
    /\ nmResults' = IF succeeded THEN "results" ELSE nmResults
    /\ nmLoading' = FALSE
    /\ UNCHANGED <<nmFiles, nameMapping, defaultName, edited>>
    /\ UNCHANGED nmFrame

-----------------------------------------------------------------------------
(***************************************************************************)
(* AuthCodeExtractor (pages/AuthCodeExtractor.js)                          *)
(*                                                                         *)
(* A handler call is split at its await: the part before it is one action, *)
(* the part after it (the try's remainder or the catch) a second one that  *)
(* runs when the request settles.  Both parts read `sessionCards` and      *)
(* `card` from the closure of the render in which the button was clicked,  *)
(* so the suspended call carries the array it captured.  The toasts and    *)
(* the unused `loading` hook are left out.                                 *)
(***************************************************************************)

\* the handler calls that may reach an await in one behaviour
MaxOps == 3

ACFileLists == {<<>>, <<"a.session">>, <<"a.session", "b.session">>}

\* the cards handleFilesSelected builds
NewCard(file) ==
    [filename |-> file, status |-> "pending", accountInfo |-> "null",
     authCode |-> "null", error |-> "null"]

\* { ...card, <changes> }
Spread(card, changes) ==
    [field \in DOMAIN card |->
        IF field \in DOMAIN changes THEN changes[field] ELSE card[field]]

\* const copy = [...cards]; copy[cardIndex] = newCard
WithCard(cards, cardIndex, newCard) ==
    [cards EXCEPT ![cardIndex] = newCard]

InitAC ==
    /\ acFiles = <<>>
    /\ sessionCards = <<>>
    /\ extractedCodes = <<>>
    /\ acInFlight = {}
    /\ acStarted = 0

\* handleFilesSelected(selectedFiles)
ACHandleFilesSelected(selectedFiles) ==
    /\ acFiles' = selectedFiles
    /\ sessionCards' = [i \in DOMAIN selectedFiles |-> NewCard(selectedFiles[i])]
    /\ extractedCodes' = <<>>
    /\ UNCHANGED <<acInFlight, acStarted>>
    /\ UNCHANGED acFrame

Suspend(kind, cardIndex) ==
    /\ acStarted' = acStarted + 1
    /\ acInFlight' = acInFlight \cup
           {[id |-> acStarted + 1, kind |-> kind, cardIndex |-> cardIndex,
             sessionCards |-> sessionCards]}

\* handleScanAccount(cardIndex) up to its await; the Scan button is shown
\* for the statuses pending, success and error.
HandleScanAccount(cardIndex) ==
    /\ cardIndex \in DOMAIN sessionCards
    /\ sessionCards[cardIndex].status \in {"pending", "success", "error"}
    /\ acStarted < MaxOps
    /\ LET card == sessionCards[cardIndex] IN
         IF card.status = "scanning"
           THEN UNCHANGED <<sessionCards, acInFlight, acStarted>>
           ELSE /\ sessionCards' = WithCard(sessionCards, cardIndex,
                        Spread(card, [status |-> "scanning", error |-> "null"]))
                /\ Suspend("scan", cardIndex)
    /\ UNCHANGED <<acFiles, extractedCodes>>
    /\ UNCHANGED acFrame

\* handleCheckCode(cardIndex) up to its await; the Check button is shown
\* for the status scanned.
HandleCheckCode(cardIndex) ==
    /\ cardIndex \in DOMAIN sessionCards
    /\ sessionCards[cardIndex].status = "scanned"
    /\ acStarted < MaxOps
    /\ LET card == sessionCards[cardIndex] IN
         IF card.accountInfo = "null" \/ card.status = "checking"
           THEN UNCHANGED <<sessionCards, acInFlight, acStarted>>
           ELSE /\ sessionCards' = WithCard(sessionCards, cardIndex,
                        Spread(card, [status |-> "checking", error |-> "null"]))
                /\ Suspend("check", cardIndex)
    /\ UNCHANGED <<acFiles, extractedCodes>>
    /\ UNCHANGED acFrame

\* The rest of handleScanAccount once sessionAPI.getLoginDetails settled.
ScanSettles(op, resolved) ==
    /\ op \in acInFlight
    /\ op.kind = "scan"
    /\ acInFlight' = acInFlight \ {op}
    /\ LET card == op.sessionCards[op.cardIndex] IN
         sessionCards' = WithCard(op.sessionCards, op.cardIndex,
             IF resolved
               THEN Spread(card, [status |-> "scanned",
                                  accountInfo |-> "loginDetails",
                                  error |-> "null"])
               ELSE Spread(card, [status |-> "error",
                                  error |-> "errorMessage"]))
    /\ UNCHANGED <<acFiles, extractedCodes, acStarted>>
    /\ UNCHANGED acFrame

\* The rest of handleCheckCode once sessionAPI.getAuthCode settled:
\* resolved with a login_code, resolved without one, or rejected.
AuthCodeOutcomes == {"login_code", "no_code", "rejected"}

CheckSettles(op, outcome) ==
    /\ op \in acInFlight
    /\ op.kind = "check"
    /\ acInFlight' = acInFlight \ {op}
    /\ LET card == op.sessionCards[op.cardIndex] IN
         /\ sessionCards' = WithCard(op.sessionCards, op.cardIndex,
               CASE outcome = "login_code" ->
                      Spread(card, [status |-> "success",
                                    authCode |-> "login_code",
                                    error |-> "null"])
                 [] outcome = "no_code" ->
                      Spread(card, [status |-> "error",
                                    error |-> "No auth code found"])
                 [] outcome = "rejected" ->
                      Spread(card, [status |-> "error",
                                    error |-> "errorMessage"]))
         /\ extractedCodes' =
               IF outcome = "login_code"
                 THEN Append(extractedCodes,
                             [session |-> card.filename, code |-> "login_code",
                              accountInfo |-> card.accountInfo])
                 ELSE extractedCodes
    /\ UNCHANGED <<acFiles, acStarted>>
    /\ UNCHANGED acFrame

-----------------------------------------------------------------------------
Init ==
    /\ InitWS /\ InitRC /\ InitFJ /\ InitFV /\ InitFU(NotMounted) /\ InitPP
    /\ InitNM /\ InitAC

NextWS ==
    \/ \E tid \in TaskIds, cb \in Callbacks : Connect(MaxSockets, tid, cb)
    \/ Disconnect
    \/ \E s \in SocketIds : SocketOpen(s)
    \/ \E s \in SocketIds, code \in {NormalClosure, AbnormalClosure} :
           SocketClose(s, code)
    \/ ReconnectTimer(MaxSockets)

SpecWS == Init /\ [][NextWS]_vars

\* The manager with its message traffic, on fewer sockets.
NextWSMsg ==
    \/ \E tid \in TaskIds, cb \in Callbacks : Connect(MsgMaxSockets, tid, cb)
    \/ Disconnect
    \/ \E s \in SocketIds : SocketOpen(s)
    \/ \E s \in SocketIds, code \in {NormalClosure, AbnormalClosure} :
           SocketClose(s, code)
    \/ ReconnectTimer(MsgMaxSockets)
    \/ \E type \in HandlerTypes, h \in Handlers : On(type, h)
    \/ \E type \in HandlerTypes : Off(type)
    \/ \E s \in SocketIds, raw \in RawMessages : OnMessage(s, raw)

SpecWSMsg == Init /\ [][NextWSMsg]_vars

\* The request controller, beside an idle WebSocket manager.
InitForRC == Init /\ urlValid

NextRC ==
    \/ \E id \in RequestIds, opt \in RequestOptions :
           CreateCancellable("request", id, opt)
    \/ \E id \in RequestIds, opt \in OperationOptions :
           CreateCancellable("operation", id, opt)
    \/ \E r \in CallIds, o \in ApiOutcomes : ApiSettles(r, o)
    \/ \E t \in CallIds : TimeoutFires(t)
    \/ \E id \in RequestIds : CancelRequest(id)
    \/ CancelAllRequests
    \/ Cleanup

SpecRC == InitForRC /\ [][NextRC]_vars

\* The FolderJoiner page, beside an idle manager and an idle controller.
NextFJ ==
    \/ \E files \in SUBSET FJSessionFiles : HandleSessionFilesSelected(files)
    \/ \E session \in FJSessionFiles, isSelected \in BOOLEAN :
           HandleSessionSelectionChange(session, isSelected)
    \/ \E link \in FolderLinks : SetFolderLink(link)
    \/ \E newRequestId \in FolderJoinIds : HandleJoinFolder(newRequestId)
    \/ JoinFolderContinues
    \/ HandleCancel

SpecFJ == InitForRC /\ [][NextFJ]_vars

\* A caller of validateFileUpload, with every list of files and every use case.
InitForFV ==
    InitWS /\ urlValid /\ InitRC /\ InitFJ /\ InputsFV /\ InitFU(NotMounted) /\ InitPP
    /\ InitNM /\ InitAC

NextFV == ValidateFileUpload

SpecFV == InitForFV /\ [][NextFV]_vars

\* A FileUpload with its default props, its parent's callback left open.
InitForFU ==
    InitWS /\ urlValid /\ InitRC /\ InitFJ /\ InitFV /\ InitFU(DefaultProps) /\ InitPP
    /\ InitNM /\ InitAC

NextFU ==
    \/ \E acceptedFiles \in DropLists : OnDrop(acceptedFiles)
    \/ \E index \in 1..MaxListLen : RemoveFile(index)
    \/ \E succeeded \in BOOLEAN, extracted \in ExtractedLists :
           ZipProcessed("onFilesSelected", succeeded, extracted)

SpecFU == InitForFU /\ [][NextFU]_vars

\* The ProfilePictureManager page with the FileUpload of its current step.
PPFiles == {f \in Files : f.size = MAX_SESSION_FILE
                             /\ f.ext \in {".session", ".zip", ".png", ".jpg"}}
\* the names of the session files the page may list
PPSessionNames ==
    {FileName(f) : f \in {g \in PPFiles : LowerEndsWith(g, SESSION)}}
    \cup {FileName(list[1]) : list \in ExtractedLists \ {<< >>}}

InitForPP ==
    InitWS /\ urlValid /\ InitRC /\ InitFJ /\ InitFV /\ InitFU(PropsAt(1)) /\ InitPP
    /\ InitNM /\ InitAC

NextPP ==
    \/ \E acceptedFiles \in SeqsUpTo(PPFiles, MaxListLen) : OnDrop(acceptedFiles)
    \/ \E index \in 1..MaxListLen : RemoveFile(index)
    \/ \E step \in 1..2, succeeded \in BOOLEAN, extracted \in ExtractedLists :
           ZipProcessed(PropsAt(step).onFilesSelected, succeeded, extracted)
    \/ NextStep
    \/ PrevStep
    \/ \E filename \in PPSessionNames, isSelected \in BOOLEAN :
           PPHandleSessionSelectionChange(filename, isSelected)
    \/ HandleSelectAllSessions
    \/ HandleDeselectAllSessions
    \/ HandleUpdateProfilePictures
    \/ \E outcome \in {"results", "noResults", "error"} : UpdateSettles(outcome)

SpecPP == InitForPP /\ [][NextPP]_vars

\* The NameManager page.
NextNM ==
    \/ \E selectedFiles \in SUBSET NMFileNames : NMHandleFilesSelected(selectedFiles)
    \/ \E name \in Names : SetDefaultName(name)
    \/ \E fileName \in NMFileNames, newName \in Names :
           HandleNameChange(SessionName(fileName), newName)
    \/ HandleUpdateNames
    \/ \E succeeded \in BOOLEAN : UpdateNamesSettles(succeeded)

SpecNM == InitForRC /\ [][NextNM]_vars

\* The AuthCodeExtractor page.
NextAC ==
    \/ \E selectedFiles \in ACFileLists : ACHandleFilesSelected(selectedFiles)
    \/ \E cardIndex \in 1..MaxListLen : HandleScanAccount(cardIndex)
    \/ \E cardIndex \in 1..MaxListLen : HandleCheckCode(cardIndex)
    \/ \E op \in acInFlight, resolved \in BOOLEAN : ScanSettles(op, resolved)
    \/ \E op \in acInFlight, outcome \in AuthCodeOutcomes : CheckSettles(op, outcome)

SpecAC == InitForRC /\ [][NextAC]_vars

-----------------------------------------------------------------------------
(***************************************************************************)
(* Claims about WebSocketManager                                           *)
(***************************************************************************)

\* C1: reconnectAttempts always lies in 0..maxReconnectAttempts, at most
\* maxReconnectAttempts reconnects are scheduled between two open events, and
\* once the counter has reached maxReconnectAttempts no step arms another timer.
C1_ReconnectAttemptsBounded ==
    /\ [](/\ reconnectAttempts \in 0..maxReconnectAttempts
          /\ Len(scheduledDelays) <= maxReconnectAttempts)
    /\ [][reconnectAttempts = maxReconnectAttempts
            => /\ pendingTimers' <= pendingTimers
               /\ scheduledDelays' \in {scheduledDelays, << >>}]_vars

\* C1 witness: an abnormal close arrived after the 5th attempt and scheduled nothing.
C1_Witness ==
    /\ reconnectAttempts = maxReconnectAttempts
    /\ lastClose.code = AbnormalClosure
    /\ ~lastClose.scheduled

\* The delays the claim lists for attempts 1..5.
ExpectedDelays == <<1000, 2000, 4000, 8000, 16000>>

\* C2: the n-th reconnect scheduled since the last open event (or since
\* construction) gets the delay reconnectDelay * 2^(n-1): 1000, 2000, 4000, 8000,
\* 16000 ms; an open event starts the series again.
C2_ExponentialBackoff ==
    /\ Len(scheduledDelays) = reconnectAttempts
    /\ \A n \in 1..Len(scheduledDelays) :
          /\ n <= Len(ExpectedDelays)
          /\ scheduledDelays[n] = ExpectedDelays[n]

\* C2 witness: five consecutive attempts were scheduled after an open event had
\* ended an earlier series (more timers are armed than this series holds).
C2_Witness ==
    /\ scheduledDelays = ExpectedDelays
    /\ pendingTimers > Len(ExpectedDelays)

\* C3: once disconnect() has returned, and as long as the caller has not called
\* connect() again, no step creates a WebSocket.
C3_NoSocketAfterDisconnect ==
    [][manuallyClosed /\ manuallyClosed' => nSockets' = nSockets]_vars

\* C4: a parsed message is handled exactly once, by the registered handler of
\* its type if there is one and else by the default handler, which dispatches
\* websocket:<type> for the five default types and nothing otherwise; a text
\* that is not JSON changes nothing.
C4_HandledExactlyOnce ==
    [][delivery'.seq # delivery.seq =>
         LET d == delivery'
             data == JSONparse(d.raw)
         IN  IF ~d.parsed
               THEN /\ d.handlerCalls = << >> /\ d.defaultCalls = 0 /\ d.events = << >>
                    /\ UNCHANGED <<ws, reconnectAttempts, messageHandlers,
                                   connectionStatus, taskId, onStatusChange>>
             ELSE IF MapHas(messageHandlers, data.type)
               THEN /\ d.handlerCalls = <<messageHandlers[data.type]>>
                    /\ d.defaultCalls = 0
                    /\ d.events = << >>
             ELSE /\ d.handlerCalls = << >>
                  /\ d.defaultCalls = 1
                  /\ d.events = IF data.type \in DefaultTypes
                                  THEN <<data.type>> ELSE << >>]_vars

\* C5: the progress message the backend documents, received while no handler is
\* registered for "progress", is re-dispatched as the event websocket:progress.
C5_BackendProgressRedispatched ==
    [][(/\ delivery'.seq # delivery.seq
        /\ delivery'.raw = BackendProgressMessage
        /\ ~MapHas(messageHandlers, "progress"))
         => delivery'.events = <<"progress">>]_vars

-----------------------------------------------------------------------------
(***************************************************************************)
(* Claims about RequestController                                          *)
(***************************************************************************)

\* The request ids a store tracks in any of its three maps.
Tracked(id) ==
    \/ MapHas(abortControllers, id)
    \/ MapHas(activeRequests, id)
    \/ MapHas(requestTimeouts, id)

\* A map's entry for a key, "none" when it has none.
Entry(m, k) == IF MapHas(m, k) THEN m[k] ELSE "none"

\* C6: cancelRequest(id) returns true exactly when a controller is tracked for
\* id; then that controller's signal is aborted, id leaves the three maps and
\* its timer is cleared; otherwise nothing changes.  Either way the entries,
\* timers and signals of every other request id stay as they were.
C6_CancelRequestFrame ==
    [][lastOp'.op = "cancelRequest" =>
         LET id == lastOp'.arg
             had == MapHas(abortControllers, id)
             timers == IF MapHas(requestTimeouts, id)
                         THEN {requestTimeouts[id]} ELSE {}
         IN  /\ lastOp'.ret = had
             /\ had => /\ abortControllers[id] \in aborted'
                       /\ ~MapHas(abortControllers', id)
                       /\ ~MapHas(activeRequests', id)
                       /\ ~MapHas(requestTimeouts', id)
                       /\ \A t \in timers : timerState'[t] # "pending"
                       /\ aborted' = aborted \cup {abortControllers[id]}
             /\ ~had => UNCHANGED rcStore
             /\ \A j \in RequestIds \ {id} :
                  /\ Entry(abortControllers', j) = Entry(abortControllers, j)
                  /\ Entry(activeRequests', j) = Entry(activeRequests, j)
                  /\ Entry(requestTimeouts', j) = Entry(requestTimeouts, j)
             /\ \A t \in CallIds \ timers : timerState'[t] = timerState[t]]_vars

\* C6 witness: a cancelRequest returned true, its timer is cleared, and another
\* request is still tracked with its timer pending.
C6_Witness ==
    /\ lastOp.op = "cancelRequest"
    /\ lastOp.ret = TRUE
    /\ \E t \in CallIds : timerState[t] = "cleared"
    /\ \E j \in RequestIds \ {lastOp.arg} :
         /\ MapHas(abortControllers, j)
         /\ MapHas(requestTimeouts, j)
         /\ timerState[requestTimeouts[j]] = "pending"

\* Call r settles in this step.
Settles(r) ==
    /\ r \in DOMAIN calls
    /\ calls[r].state = "pending"
    /\ calls'[r].state = "settled"

\* Call r has settled because its apiCall resolved or rejected with an error
\* other than an abort error.
SettledNormally(r) ==
    /\ r \in DOMAIN calls
    /\ calls[r].state = "settled"
    /\ calls[r].apiOutcome.name # "AbortError"

\* C7: when a call settles because its apiCall resolved or rejected with a
\* non-abort error, its id is in none of the three maps, its timer is no longer
\* pending, the caller gets the apiCall's own value or error, and from then on
\* the call's onTimeout is never run.
C7_SettledRequestIsForgotten ==
    [][\A r \in CallIds :
         /\ (Settles(r) /\ calls'[r].apiOutcome.name # "AbortError")
              => /\ ~MapHas(abortControllers', calls[r].id)
                 /\ ~MapHas(activeRequests', calls[r].id)
                 /\ ~MapHas(requestTimeouts', calls[r].id)
                 /\ timerState'[r] # "pending"
                 /\ calls'[r].delivered = calls'[r].apiOutcome
                 /\ calls'[r].delivered \in ApiOutcomes
         /\ SettledNormally(r)
              => /\ onTimeoutCalls'[r] = onTimeoutCalls[r]
                 /\ timerState'[r] = timerState[r]]_vars

\* C7 witness: a call with an armed timer settled with a non-abort error, the
\* timer was cleared before it fired and the caller got that error.
C7_Witness ==
    \E r \in DOMAIN calls :
      /\ SettledNormally(r)
      /\ calls[r].apiOutcome.name = "NetworkError"
      /\ calls[r].delivered = calls[r].apiOutcome
      /\ calls[r].timer = r
      /\ timerState[r] = "cleared"
      /\ onTimeoutCalls[r] = 0

\* C8: when the timer of a call that has not settled fires, the call's signal
\* is aborted, its id leaves the three maps and its onTimeout (when one was
\* given) has run exactly once; no onTimeout ever runs twice; and a call made
\* with timeout <= 0 registers no timer.
C8_TimeoutCancelsRequest ==
    /\ [](\A r \in DOMAIN calls :
            /\ onTimeoutCalls[r] <= 1
            /\ calls[r].timeout <= 0 => (calls[r].timer = 0 /\ timerState[r] = "none")
            /\ calls[r].timeout > 0 => (calls[r].timer = r /\ timerState[r] # "none"))
    /\ [][\A r \in DOMAIN calls :
            (timerState[r] = "pending" /\ timerState'[r] = "fired"
               /\ calls[r].state = "pending")
              => /\ r \in aborted'
                 /\ ~MapHas(abortControllers', calls[r].id)
                 /\ ~MapHas(activeRequests', calls[r].id)
                 /\ ~MapHas(requestTimeouts', calls[r].id)
                 /\ onTimeoutCalls'[r] = IF calls[r].onTimeout THEN 1 ELSE 0]_vars

\* C8 witness: the timer of a pending call fired, the call's signal is aborted
\* and its onTimeout has run once.
C8_Witness ==
    \E r \in DOMAIN calls :
      /\ calls[r].state = "pending"
      /\ timerState[r] = "fired"
      /\ r \in aborted
      /\ onTimeoutCalls[r] = 1
      /\ ~Tracked(calls[r].id)

\* C9: a call whose apiCall rejected with an error named AbortError has run its
\* onCancel once (never, when none was given) and rejected with
\* Error('Request was cancelled'), or Error('Operation was cancelled') for
\* createCancellableOperation; the abort error itself never reaches the caller.
C9_AbortBecomesCancelled ==
    \A r \in DOMAIN calls :
      /\ onCancelCalls[r] <= 1
      /\ (calls[r].state = "settled" /\ calls[r].apiOutcome.name = "AbortError")
           => /\ onCancelCalls[r] = IF calls[r].onCancel THEN 1 ELSE 0
              /\ calls[r].delivered.kind = "error"
              /\ calls[r].delivered.name = "Error"
              /\ calls[r].delivered.message =
                   IF calls[r].kind = "request" THEN "Request was cancelled"
                                                ELSE "Operation was cancelled"
      /\ calls[r].delivered.name # "AbortError"

\* C9 witness: a request and an operation were both rejected with an abort
\* error and both ran their onCancel.
C9_Witness ==
    \E r, q \in DOMAIN calls :
      /\ calls[r].kind = "request" /\ calls[q].kind = "operation"
      /\ calls[r].apiOutcome.name = "AbortError"
      /\ calls[q].apiOutcome.name = "AbortError"
      /\ onCancelCalls[r] = 1 /\ onCancelCalls[q] = 1

\* C10: cancelAllRequests() and cleanup() abort every tracked controller, leave
\* the three maps empty and leave no timer pending, so no onTimeout registered
\* before the call runs after it.
C10_CancelAllLeavesNothing ==
    /\ [][lastOp'.op \in {"cancelAllRequests", "cleanup"} =>
            /\ MapRange(abortControllers) \subseteq aborted'
            /\ abortControllers' = EmptyMap
            /\ activeRequests' = EmptyMap
            /\ requestTimeouts' = EmptyMap
            /\ \A t \in CallIds : timerState'[t] # "pending"]_vars
    /\ [][\A t \in CallIds :
            timerState[t] # "pending" => onTimeoutCalls'[t] = onTimeoutCalls[t]]_vars

\* C10 witness: cleanup() ran with two requests tracked; both signals are
\* aborted and both timers were cleared without firing.
C10_Witness ==
    /\ lastOp.op = "cleanup"
    /\ Cardinality(aborted) >= 2
    /\ Cardinality({t \in CallIds : timerState[t] = "cleared"}) >= 2
    /\ \A t \in CallIds : onTimeoutCalls[t] = 0


-----------------------------------------------------------------------------
(***************************************************************************)
(* FolderJoiner                                                            *)
(***************************************************************************)

\* a folder join is in flight, as the page sees it
InFlight == isLoading /\ requestId # "null"

\* C11: handleJoinFolder invokes sessionAPI.joinFolder iff the folder link is
\* non-blank and a session is selected: then it makes exactly one call, with
\* the selected sessions, the link and the signal of the request the controller
\* tracks under the new id; otherwise it makes no call and changes nothing but
\* the error message, which it sets.
C11_JoinFolderInvokedIffValid ==
    [][\A newRequestId \in FolderJoinIds :
         HandleJoinFolder(newRequestId) =>
           IF ~IsBlank(folderLink) /\ selectedSessions # {}
             THEN /\ MapHas(abortControllers', newRequestId)
                  /\ joinFolderCalls' =
                       Append(joinFolderCalls,
                              [sessions |-> selectedSessions, link |-> folderLink,
                               signal |-> abortControllers'[newRequestId]])
             ELSE /\ joinFolderCalls' = joinFolderCalls
                  /\ error' # ""
                  /\ UNCHANGED <<isLoading, results, requestId, joinPromise>>]_vars

\* C12: while a join is in flight its request is tracked by the controller and
\* sessionAPI.joinFolder holds that request's signal, and a handleCancel call
\* then aborts the signal, untracks the request and resets requestId.
C12_CancelAbortsInFlightJoin ==
    [][InFlight =>
         /\ MapHas(abortControllers, requestId)
         /\ \E i \in DOMAIN joinFolderCalls :
                joinFolderCalls[i].signal = abortControllers[requestId]
         /\ HandleCancel =>
              /\ abortControllers[requestId] \in aborted'
              /\ ~MapHas(abortControllers', requestId)
              /\ requestId' = "null"]_vars

-----------------------------------------------------------------------------
(***************************************************************************)
(* File validation                                                         *)
(***************************************************************************)

\* the 0-based indices validateFileUpload reported as valid
ReportedValid(result) == {result.validFiles[n].index : n \in DOMAIN result.validFiles}

\* C15: validateFileUpload(files, 'zip') reports a file as valid iff its
\* extension, case-insensitively, is .zip and its size is at most MAX_ZIP_FILE;
\* for a non-empty list validCount + invalidCount = totalFiles and isValid is
\* true exactly when invalidCount = 0.
C15_ZipValidIffZipAndSmall ==
    (validation.called /\ validation.useCase = "zip" /\ Len(validation.files) > 0) =>
        LET r == validation.result IN
        /\ \A i \in DOMAIN validation.files :
             (i - 1 \in ReportedValid(r)) <=>
                (/\ ToLowerCase(validation.files[i].ext) = ".zip"
                 /\ validation.files[i].size <= MAX_ZIP_FILE)
        /\ r.validCount + r.invalidCount = r.totalFiles
        /\ r.isValid <=> (r.invalidCount = 0)

-----------------------------------------------------------------------------
(***************************************************************************)
(* FileUpload                                                              *)
(***************************************************************************)

\* a .session file of at most 5 MB or a .zip file of at most 50 MB
PassesValidation(file) ==
    \/ file.ext = ".session" /\ file.size <= 5 * 1024 * 1024
    \/ file.ext = ".zip" /\ file.size <= 50 * 1024 * 1024

\* C14: of the files of a drop, exactly those that pass validation are
\* processed, the .session ones appended to files and passed to
\* onFilesSelected, the .zip ones sent to the ZIP endpoints, and every other
\* file of the drop gets one error toast, in the order of the drop.
C14_OnlyValidatedFilesProcessed ==
    [][OnDrop(lastCall'.acceptedFiles) =>
           LET acceptedFiles == lastCall'.acceptedFiles
               passing == SelectSeq(acceptedFiles, PassesValidation)
               failing == SelectSeq(acceptedFiles, LAMBDA f : ~PassesValidation(f))
               passingSessions == SelectSeq(passing, LAMBDA f : f.ext = ".session")
               passingZips == SelectSeq(passing, LAMBDA f : f.ext = ".zip")
           IN  /\ fuFiles' = fuFiles \o passingSessions
               /\ selectedCalls' = IF Len(passingSessions) > 0 THEN <<passingSessions>>
                                                               ELSE << >>
               /\ zipsSent' = passingZips
               /\ Len(errorToasts') = Len(failing)
               /\ \A n \in DOMAIN failing : errorToasts'[n].file = failing[n]]_vars

\* C14 witness: the last drop held a session file of more than 5 MB and a
\* ZIP file of more than 5 MB: one toast for the former, the latter sent on.
C14_Witness ==
    /\ lastCall.handler = "onDrop"
    /\ Len(lastCall.acceptedFiles) = 2
    /\ lastCall.acceptedFiles[1].ext = ".session"
    /\ lastCall.acceptedFiles[1].size > 5 * 1024 * 1024
    /\ Len(errorToasts) = 1
    /\ zipsSent = <<lastCall.acceptedFiles[2]>>

-----------------------------------------------------------------------------
(***************************************************************************)
(* ProfilePictureManager                                                   *)
(***************************************************************************)

\* an image the profile-picture upload is documented to take
IsAcceptedImage(file) ==
    /\ file.ext \in {".jpg", ".jpeg", ".png", ".gif"}
    /\ file.size >= 1024
    /\ file.size <= 10 * 1024 * 1024

\* C13: dropping one accepted image on the FileUpload of step 2 makes it call
\* onFilesSelected with that file, so that profilePicture becomes the file
\* and the Next control of step 2 is enabled.
C13_ImageDropSetsProfilePicture ==
    [][(/\ currentStep = 2
        /\ OnDrop(lastCall'.acceptedFiles)
        /\ Len(lastCall'.acceptedFiles) = 1
        /\ IsAcceptedImage(lastCall'.acceptedFiles[1]))
       => /\ Len(selectedCalls') > 0
          /\ selectedCalls'[Len(selectedCalls')] = lastCall'.acceptedFiles
          /\ profilePicture' = lastCall'.acceptedFiles[1]
          /\ canProceedToNextStep']_vars

\* C17: currentStep stays within 1..4 and moves by one; it moves up from step
\* 1 only with a session file loaded, from step 2 only with a picture set,
\* from step 3 only with a session selected; and no updateProfilePictures call
\* has an empty session list or no picture.
C17_WizardStepsGuarded ==
    /\ [](currentStep \in 1..4)
    /\ [][currentStep' # currentStep =>
            \/ currentStep' = currentStep + 1
            \/ currentStep' = currentStep - 1]_vars
    /\ [][currentStep' = currentStep + 1 =>
            /\ currentStep = 1 => Len(sessionFiles) > 0
            /\ currentStep = 2 => profilePicture # NoFile
            /\ currentStep = 3 => ppSelectedSessions # {}]_vars
    /\ [](lastUpdate.called =>
            /\ Len(lastUpdate.sessions) > 0
            /\ lastUpdate.picture # NoFile)

\* C17 witness: the wizard went through its three gates to step 4, where an
\* update was sent and is being awaited.
C17_Witness ==
    /\ currentStep = 4
    /\ loading
    /\ lastUpdate.called
    /\ lastUpdate.sessions = getSelectedSessionFiles
    /\ lastUpdate.picture = profilePicture

-----------------------------------------------------------------------------
(***************************************************************************)
(* NameManager                                                             *)
(***************************************************************************)

\* C16: whenever defaultName is non-empty and files are selected, the entry
\* of every session the user has not edited individually equals defaultName.
C16_DefaultNameAppliedToAll ==
    (defaultName # "" /\ nmFiles # {}) =>
        \A f \in nmFiles :
            SessionName(f) \notin edited =>
                /\ MapHas(nameMapping, SessionName(f))
                /\ nameMapping[SessionName(f)] = defaultName

-----------------------------------------------------------------------------
(***************************************************************************)
(* AuthCodeExtractor                                                       *)
(***************************************************************************)

Busy(card) == card.status \in {"scanning", "checking"}

\* the step in which the suspended call `op` runs to its end
Completes(op) == op \in acInFlight /\ op \notin acInFlight'

\* the cards with a call of their own in flight while `op` completes
OverlappingCards(op) ==
    {other.cardIndex : other \in acInFlight} \ {op.cardIndex}

OtherCardsUntouched(op) ==
    \A j \in OverlappingCards(op) \cap DOMAIN sessionCards :
        /\ j \in DOMAIN sessionCards'
        /\ sessionCards'[j] = sessionCards[j]

\* C19: the completion of a scan or a check on card i leaves every other
\* card's status, accountInfo, authCode and error as they were, and a card
\* shown as scanning or checking always has a request of its own in flight,
\* so it leaves that status once its request settles.
C19_CardsAreIndependent ==
    /\ [][\A op \in acInFlight : Completes(op) => OtherCardsUntouched(op)]_vars
    /\ [](\A i \in DOMAIN sessionCards :
              Busy(sessionCards[i]) =>
                  \E op \in acInFlight : op.cardIndex = i)

-----------------------------------------------------------------------------
(***************************************************************************)
(* RequestController.createAbortController                                 *)
(***************************************************************************)

\* the step of a createCancellableRequest / createCancellableOperation call
Creates == Len(calls') = Len(calls) + 1

\* C18: createAbortController(id) leaves abortControllers mapping id to the
\* new controller, which is not aborted; and when a controller was tracked
\* for id, that controller's signal is aborted and the id's active entry and
\* timer are gone when createAbortController returns, the old timer never
\* being pending afterwards.
C18_CreateReplacesExisting ==
    [][Creates =>
         LET r == Len(calls')
             id == calls'[r].id
             s1 == createAbortController(Store, id, r)
         IN  /\ MapHas(s1.abortControllers, id)
             /\ s1.abortControllers[id] = r
             /\ r \notin s1.aborted
             /\ MapHas(abortControllers', id)
             /\ abortControllers'[id] = r
             /\ r \notin aborted'
             /\ MapHas(abortControllers, id) =>
                  /\ abortControllers[id] # r
                  /\ abortControllers[id] \in s1.aborted
                  /\ abortControllers[id] \in aborted'
                  /\ ~MapHas(s1.activeRequests, id)
                  /\ ~MapHas(s1.requestTimeouts, id)
                  /\ MapHas(requestTimeouts, id) =>
                       /\ s1.timerState[requestTimeouts[id]] = "cleared"
                       /\ timerState'[requestTimeouts[id]] = "cleared"]_vars

\* C18 witness: a second call was made for the id of a call that is still
\* pending and had its timer armed; the earlier controller is aborted, its
\* timer cleared, and the id is mapped to the new, non-aborted controller.
C18_Witness ==
    \E old \in DOMAIN calls, r \in DOMAIN calls :
      /\ old < r
      /\ calls[old].id = calls[r].id
      /\ calls[old].state = "pending"
      /\ calls[old].timer = old
      /\ timerState[old] = "cleared"
      /\ old \in aborted
      /\ MapHas(abortControllers, calls[r].id)
      /\ abortControllers[calls[r].id] = r
      /\ r \notin aborted
      /\ calls[r].state = "pending"

=============================================================================
